---- MODULE Spec2Model ----
(***************************************************************************)
(* Kizuna P2P bridge (pear_bridge/index.js, pear_bridge/a2a-gateway.js):   *)
(* the Kizuna Task Protocol engine of one node.  The state is the node's   *)
(* peer table, its sent-task and dead-letter tables and the wall clock;    *)
(* the operations are the HTTP handlers, the socket handlers and the       *)
(* retry reaper.                                                           *)
(*                                                                         *)
(* Time is counted in milliseconds and advances in steps of TimeUnit.      *)
(* Timestamps are held relative to a moving epoch (see EpochLen).          *)
(* Fields of a task entry that the bridge writes but never reads           *)
(* (createdAt, completedAt, result, error, contextId) are not carried.     *)
(* An inbox record carries its sender and the type of its content.         *)
(*                                                                         *)
(* Ten specifications run the same handlers and differ in the events the   *)
(* environment produces: Spec is the task engine driven by its HTTP        *)
(* clients, SessionSpec the life of the streams of one remote key          *)
(* (connections, pings, handshakes, failures, timeouts), NodeSpec the      *)
(* inbound frames, received tasks, topics and manifest of a node with two  *)
(* remote keys between two ticks of its clock, InboxSpec the inbox filled  *)
(* by a peer and by local broadcasts, AuthSpec the control plane with and  *)
(* without an API key, ValidationSpec the two task endpoints called with   *)
(* every kind of body, GatewaySpec the task tables as tasks/get and        *)
(* /task/status read them, DeliverySpec the delivery of a request among    *)
(* two peers, EntropySpec the entropy reaper and its switch, RetrySpec the *)
(* retry queue under a clock and reapers that keep running.                *)
(***************************************************************************)
EXTENDS Integers, Sequences, FiniteSets, TLC

VARIABLES now, retryReapAt, peers, sentTasks, deadLetterTasks, nextTaskId,
          written, reply,
          timeoutReapAt, sockets, receivedTasks, inbox, activeTopics,
          myManifest, told, API_KEY, entropyEnabled

vars == <<now, retryReapAt, peers, sentTasks, deadLetterTasks, nextTaskId,
          written, reply,
          timeoutReapAt, sockets, receivedTasks, inbox, activeTopics,
          myManifest, told, API_KEY, entropyEnabled>>

\* the task engine's tables
taskVars == <<sentTasks, deadLetterTasks, nextTaskId>>

\* the swarm side of the node
nodeVars == <<receivedTasks, inbox, activeTopics>>

\* what the operator configures, the local manifest and KIZUNA_API_KEY, and
\* the history of the handshakes: told[key] is the manifest carried by the
\* last handshake written to a stream of the key (the startup manifest
\* while none was written)
configVars == <<myManifest, told, API_KEY, entropyEnabled>>

(* ------------------------------ bounds -------------------------------- *)

\* number of task ids generateTaskId hands out
MaxTasks == 1

\* number of streams that exist at one time (open, or closed with a
\* heartbeat timer still running)
MaxSockets == 2

\* number of records the inbox holds before GET /inbox is called
MaxInbox == 1

\* the same in InboxSpec
MaxBacklog == 3

(* --------------------------- program constants ------------------------ *)

maxAttempts == 3

baseDelayMs == 5000

maxDelayMs == 60000

reaperIntervalMs == 5000

\* period of the heartbeat timer, the finest timer of the node: the clock
\* advances in steps of this length
TimeUnit == 2500

\* timeout reaper: now - peer.lastSeen > 10000
peerTimeoutMs == 10000

\* period of the timeout reaper
timeoutIntervalMs == 5000

(* ------------------------------- clock -------------------------------- *)

\* Date.now() values are kept relative to an epoch that AdvanceTime moves
\* forward by EpochLen each time the clock reaches it; every timestamp the
\* node holds is moved with it, so no comparison with Date.now() changes.
EpochLen == reaperIntervalMs

\* a timestamp further back than the epoch
Past == 0 - TimeUnit

\* null / undefined in a numeric field
NULL == -1

\* absent string field (failureReason, responder)
NONE == "none"

\* `x && ...` on a timestamp field: null and undefined are falsy (a value of
\* Date.now() is never 0)
IsSet(x) == x # NULL

\* a timestamp after the epoch has moved forward by EpochLen
Rebase(x) ==
    IF x = NULL THEN NULL
    ELSE IF x - EpochLen < Past THEN Past ELSE x - EpochLen

\* lastSeen after the epoch has moved: a peer silent for longer than any
\* eviction takes is not told apart further
SeenFloor == 0 - (peerTimeoutMs + 2 * timeoutIntervalMs)

RebaseSeen(x) == IF x - EpochLen < SeenFloor THEN SeenFloor ELSE x - EpochLen

RebaseTask(task) ==
    [task EXCEPT !.deadline = Rebase(@), !.lastAttemptAt = Rebase(@),
                 !.nextRetryTime = Rebase(@), !.failedAt = Rebase(@)]

(* ------------------------------ input sets ---------------------------- *)

\* full hex public keys of the remote nodes
PeerKeys == {"K1"}

\* the remote keys of NodeSpec
NodeKeys == {"K1", "K2"}

\* key.slice(-8)
ShortId(key) == IF key = "K1" THEN "id1" ELSE "id2"

\* agent_id values a remote manifest may carry
AgentIds == {"Ghost"}

\* peer.manifest: null until the handshake arrives
NoManifest == "null"

\* String.prototype.toLowerCase on the strings that occur
ToLowerCase(s) ==
    CASE s = "Ghost" -> "ghost"
      [] s = "Bearer" -> "bearer"
      [] OTHER -> s

\* target of a request: absent/empty, broadcast, a short id, agent names
NoTarget == ""

Targets == {NoTarget, "*", "id1", "ghost", "nobody"}

TaskTypes == {"analysis"}

\* req.body.deadline: absent or an absolute time in ms
Deadlines == {NULL, 10000}

\* status values a remote task_response may carry
WireStatuses == {"accepted", "rejected", "in_progress", "completed", "failed",
                 "pending", "queued_for_retry", "bogus"}

TaskIds == 1..MaxTasks

\* the streams of the swarm, in the order they are handed to the node
SocketIds == 1..MaxSockets

\* identity keys (DER hex of an Ed25519 public key) that sign envelopes:
\* the one of the node behind K1, and one of some other key pair
IdentityKeys == {"ID1", "IDX"}

\* myPeerId of the node whose swarm key is `key`
IdentityOf(key) == IF key = "K1" THEN "ID1" ELSE "ID2"

\* myPeerId of this node
myPeerId == "ID0"

\* getRawKeyHex(derHex): the raw key of an identity key, of which the code
\* takes the first and the last eight characters
getRawKeyHex(derHex) ==
    CASE derHex = "ID0" -> [first8 |-> "0a0a0a0a", last8 |-> "0f0f0f0f"]
      [] derHex = "ID1" -> [first8 |-> "1a1a1a1a", last8 |-> "1f1f1f1f"]
      [] derHex = "ID2" -> [first8 |-> "2a2a2a2a", last8 |-> "2f2f2f2f"]
      [] OTHER -> [first8 |-> "xaxaxaxa", last8 |-> "xfxfxfxf"]

\* myPeerIdRaw.substring(0, 8) on the node with this identity key: the short
\* id a node reports for itself
SelfShortId(derHex) == getRawKeyHex(derHex).first8

\* agent_id of the local manifest at startup, and the ones POST /manifest
\* is called with (NONE: the request has no agent_id)
DefaultAgentId == "Agent-Zero"

ManifestUpdates == {"Neo", NONE}

VALID_TASK_TYPES == {"general", "analysis", "code_review", "research", "test", "other"}

VALID_PRIORITIES == {"low", "medium", "high", "critical"}

MAX_DESCRIPTION_LENGTH == 10000

MAX_CONTEXT_SIZE == 50000

\* a value of a JSON body as the handlers see it: its typeof, whether it is
\* truthy, its text when it is a string, and its length (of the string, or
\* of JSON.stringify of an object)
JsValue(typeof, truthy, text, length) ==
    [typeof |-> typeof, truthy |-> truthy, text |-> text, length |-> length]

Undefined == JsValue("undefined", FALSE, NONE, 0)

JsString(text, length) == JsValue("string", length > 0, text, length)

JsNumber(n) == JsValue("number", n # 0, NONE, 0)

JsObject(size) == JsValue("object", TRUE, NONE, size)

\* bodies of POST /task/request: the description absent, a number, a short
\* and an over-long string; the target absent, a name, a number; task_type
\* and priority absent, in the enum, outside it, the empty string; the
\* context absent, small, over-long
RequestBodies ==
    [description : {Undefined, JsNumber(5), JsString("x", 1),
                    JsString("long", MAX_DESCRIPTION_LENGTH + 1)},
     target : {Undefined, JsString("id1", 3), JsString("nobody", 6), JsNumber(7)},
     task_type : {Undefined, JsString("analysis", 8), JsString("bogus", 5), JsString("", 0)},
     priority : {Undefined, JsString("high", 4), JsString("urgent", 6), JsString("", 0)},
     context : {Undefined, JsObject(2), JsObject(MAX_CONTEXT_SIZE + 1)}]

\* req.body.task_id absent
NoTaskId == 0

\* KIZUNA_API_KEY unset
NoKey == ""

\* values of KIZUNA_API_KEY
ApiKeys == {NoKey, "s3cret"}

\* tokens a client puts behind the scheme of its Authorization header: the
\* key, a wrong one of another length, a wrong one of the same length, and
\* one of the same length whose * stands for a character above U+007F
Tokens == {"s3cret", "guess", "s3creT", "s3cr*t"}

\* token.length, the number of UTF-16 units of a string
Length(str) ==
    CASE str = "" -> 0
      [] str = "guess" -> 5
      [] OTHER -> 6

\* Buffer.from(str).length, the number of bytes of its UTF-8 encoding
ByteLength(str) == IF str = "s3cr*t" THEN Length(str) + 1 ELSE Length(str)

\* req.headers.authorization as authHeader.split(' ') sees it; <<>> stands
\* for a request without the header
NoHeader == <<>>

AuthHeaders ==
    {NoHeader, <<"Bearer">>, <<"Bearer", "s3cret", "x">>} \cup
    {<<type, token>> : type \in {"Bearer", "bearer", "Basic"}, token \in Tokens}

\* status values POST /task/respond is called with
RespondStatuses == {"accepted", "in_progress", "completed", "bogus"}

\* the topic joined at startup, and another one
DefaultTopic == "agent-zero-swarm-poc"

Topics == {DefaultTopic, "lab"}

(* --------------------------- inbound frames --------------------------- *)

\* the inner JSON of an envelope (raw.content)
Payload(type, task_id, status, manifest) ==
    [type |-> type, task_id |-> task_id, status |-> status, manifest |-> manifest]

NoPayload == Payload(NONE, 0, NONE, NONE)

\* a signature: the private key that made it and the content it was made over
Signature(by, over) == [by |-> by, over |-> over]

NoSignature == Signature(NONE, NoPayload)

\* what JSON.parse(data.toString()) yields, or fails to
Raw(parses, type, content, senderKey, signature) ==
    [parses |-> parses, type |-> type, content |-> content,
     senderKey |-> senderKey, signature |-> signature]

\* signMessage on the sending node: senderKey and signature of one key pair
SignedBy(payload, id) == Raw(TRUE, NONE, payload, id, Signature(id, payload))

\* an envelope naming one key and signed with another
Forged(payload, id, signer) == Raw(TRUE, NONE, payload, id, Signature(signer, payload))

\* an envelope whose content was changed after signing
Tampered(payload, id) == Raw(TRUE, NONE, payload, id, Signature(id, NoPayload))

\* an envelope without signature and senderKey
Unsigned(payload) == Raw(TRUE, NONE, payload, NONE, NoSignature)

PingFrame == Raw(TRUE, "ping", NoPayload, NONE, NoSignature)

\* bytes that are not JSON
Malformed == Raw(FALSE, NONE, NoPayload, NONE, NoSignature)

HandshakePayloads == {Payload("handshake", 0, NONE, a) : a \in AgentIds}

TaskRequestPayloads == {Payload("task_request", id, NONE, NONE) : id \in TaskIds}

TaskResponsePayloads(statuses) ==
    {Payload("task_response", id, st, NONE) : id \in TaskIds, st \in statuses}

ChatPayload == Payload("CHAT", 0, NONE, NONE)

\* contents POST /broadcast is called with
Contents == {Payload("CHAT", 0, NONE, NONE), Payload("NOTE", 0, NONE, NONE)}

\* frames the task engine's peers send: pings, handshakes, task responses
EngineFrames ==
    {PingFrame} \cup
    {SignedBy(c, "ID1") : c \in HandshakePayloads \cup TaskResponsePayloads(WireStatuses)}

\* frames of a peer that keeps its session alive: pings and signed handshakes
SessionFrames == {PingFrame} \cup {SignedBy(c, "ID1") : c \in HandshakePayloads}

\* the handshake a peer sends when it connects
HandshakeFrames == {SignedBy(c, "ID1") : c \in HandshakePayloads}

\* frames of a peer that asks for work and answers requests
GatewayFrames ==
    {SignedBy(c, "ID1") : c \in TaskRequestPayloads \cup TaskResponsePayloads({"completed"})}

\* frames of a peer that answers requests, also with a status that puts the
\* task back into the retry queue
RetryFrames ==
    {SignedBy(c, "ID1") : c \in TaskResponsePayloads({"completed", "queued_for_retry"})}

\* frames that put a record into the inbox
InboxFrames == {SignedBy(c, "ID1") : c \in {ChatPayload} \cup TaskRequestPayloads}

\* frames of every kind, well signed or not
NodePayloads ==
    HandshakePayloads \cup TaskRequestPayloads \cup
    TaskResponsePayloads({"completed"}) \cup {ChatPayload}

NodeFrames ==
    {PingFrame, Malformed} \cup
    {SignedBy(c, id) : c \in NodePayloads, id \in IdentityKeys} \cup
    {Forged(c, "ID1", "IDX") : c \in NodePayloads} \cup
    {Tampered(c, "ID1") : c \in NodePayloads} \cup
    {Unsigned(c) : c \in NodePayloads}

(* ------------------------------ helpers ------------------------------- *)

\* peers is the Map in insertion order: a sequence of [key, manifest]
PeerIndex(key) ==
    IF \E i \in 1..Len(peers) : peers[i].key = key
    THEN CHOOSE i \in 1..Len(peers) : peers[i].key = key
    ELSE 0

HasPeer(key) == PeerIndex(key) # 0

\* peerShortId === target || manifest.agent_id?.toLowerCase() === target.toLowerCase()
MatchesTarget(p, target) ==
    \/ ShortId(p.key) = target
    \/ p.manifest # NoManifest /\ ToLowerCase(p.manifest) = ToLowerCase(target)

\* the reaper's test also lets "*" match every peer
ReaperMatches(p, target) == target = "*" \/ MatchesTarget(p, target)

\* first index of the peer table satisfying the match, 0 if none
FirstMatch(target) ==
    IF \E i \in 1..Len(peers) : MatchesTarget(peers[i], target)
    THEN CHOOSE i \in 1..Len(peers) :
            /\ MatchesTarget(peers[i], target)
            /\ \A j \in 1..(i-1) : ~MatchesTarget(peers[j], target)
    ELSE 0

ReaperFirstMatch(target) ==
    IF \E i \in 1..Len(peers) : ReaperMatches(peers[i], target)
    THEN CHOOSE i \in 1..Len(peers) :
            /\ ReaperMatches(peers[i], target)
            /\ \A j \in 1..(i-1) : ~ReaperMatches(peers[j], target)
    ELSE 0

Min(a, b) == IF a < b THEN a ELSE b

RECURSIVE Pow2(_)
Pow2(n) == IF n = 0 THEN 1 ELSE 2 * Pow2(n - 1)

\* faulty variant: the first retry waits baseDelayMs (exponent attemptCount - 1)
exponentialBackoff_fromBase(attemptCount) ==
    Min(baseDelayMs * Pow2(attemptCount - 1), maxDelayMs)

exponentialBackoff(attemptCount) ==
    Min(baseDelayMs * Pow2(attemptCount), maxDelayMs)

\* `Peer offline after ${task.attemptCount} attempts`
PeerOfflineReason(n) ==
    CASE n = 3 -> "Peer offline after 3 attempts"
      [] n = 4 -> "Peer offline after 4 attempts"
      [] OTHER -> "Peer offline after N attempts"

\* a frame written to a peer's socket
Frame(to, type, task_id, task_type, payload, deadline) ==
    [to |-> to, type |-> type, task_id |-> task_id, task_type |-> task_type,
     payload |-> payload, deadline |-> deadline]

TaskRequestFrame(to, id, task) ==
    Frame(to, "task_request", id, task.task_type, task.payload, task.deadline)

NoReply == [code |-> 0, status |-> NONE]

\* an empty Map
EmptyTable == [id \in {} |-> NULL]

\* table.set(id, entry)
MapSet(table, id, entry) ==
    [i \in DOMAIN table \cup {id} |-> IF i = id THEN entry ELSE table[i]]

\* table.delete(id)
MapDelete(table, id) == [i \in DOMAIN table \ {id} |-> table[i]]

\* crypto.verify with the public key the envelope names: true iff the
\* signature was made with that key's private half over this content
verifyMessage_any(message) == TRUE

verifyMessage(message) ==
    /\ message.signature.by = message.senderKey
    /\ message.signature.over = message.content

\* raw.signature && raw.senderKey
HasSignature(raw) == raw.signature # NoSignature /\ raw.senderKey # NONE

\* the envelope reaches the dispatch on payload.type
Dispatched(raw) ==
    /\ raw.parses /\ raw.type # "ping"
    /\ HasSignature(raw) /\ verifyMessage(raw)

\* inbox.push({ sender: remoteKey, senderShortId, timestamp, content })
InboxRecord(remoteKey, payload) ==
    [sender |-> remoteKey, senderShortId |-> ShortId(remoteKey), type |-> payload.type]

\* a stream with its heartbeat timer: state is "open", "closing" (destroyed,
\* 'close' not yet emitted) or "closed"; interval is TRUE while the timer set
\* at connection has not been cleared
Socket(key, state, interval) == [key |-> key, state |-> state, interval |-> interval]

NoSockets == [s \in {} |-> Socket(NONE, "closed", FALSE)]

\* the id the next stream gets, 0 if MaxSockets streams exist
FreeSocket ==
    IF SocketIds \ DOMAIN sockets = {} THEN 0
    ELSE CHOOSE s \in SocketIds \ DOMAIN sockets :
            \A r \in SocketIds \ DOMAIN sockets : s <= r

\* a closed stream whose timer is cleared is garbage
Collect(socks) ==
    [s \in {r \in DOMAIN socks : socks[r].state # "closed" \/ socks[r].interval}
        |-> socks[s]]

IsOpen(s) == s \in DOMAIN sockets /\ sockets[s].state = "open"

\* cleanupPeer(key): clearInterval(peers.get(key).interval) ...
cleanupPeer_sockets(socks, key) ==
    IF HasPeer(key)
    THEN [socks EXCEPT ![peers[PeerIndex(key)].socket].interval = FALSE]
    ELSE socks

\* ... and peers.delete(key)
cleanupPeer_peers(prs, key) == SelectSeq(prs, LAMBDA p : p.key # key)

\* the object literal stored by sentTasks.set in the two gateways; requested
\* is a history field the program does not keep: params.target of the
\* message/send request that created the task
NewTask(target, status, payload, task_type, deadline, attemptCount, lastAttemptAt, nextRetryTime, peerWasOffline, a2aSource, requested) ==
    [target |-> target, status |-> status, payload |-> payload,
     task_type |-> task_type, deadline |-> deadline,
     attemptCount |-> attemptCount, lastAttemptAt |-> lastAttemptAt,
     nextRetryTime |-> nextRetryTime, peerWasOffline |-> peerWasOffline,
     a2aSource |-> a2aSource, requested |-> requested,
     failureReason |-> NONE, failedAt |-> NULL, responder |-> NONE]

\* KTP_TO_A2A_STATE[ktpStatus] || 'submitted'
ktpToA2AState(ktpStatus) ==
    CASE ktpStatus = "pending" -> "submitted"
      [] ktpStatus \in {"queued_for_retry", "accepted", "in_progress"} -> "working"
      [] ktpStatus \in {"completed", "failed", "rejected"} -> ktpStatus
      [] OTHER -> "submitted"

\* ktpTaskToA2ATask(ktpTask, taskId, direction): the fields of the A2A task
\* that depend on the entry
ktpTaskToA2ATask(ktpTask, taskId, direction) ==
    [id |-> taskId, state |-> ktpToA2AState(ktpTask.status), direction |-> direction,
     ktpStatus |-> ktpTask.status]

\* A2A_ERRORS
INVALID_PARAMS == -32602

TASK_NOT_FOUND == -32001

\* jsonRpcSuccess(id, {task}) and jsonRpcError(id, error)
jsonRpcSuccess(task) == [code |-> 0, status |-> NONE, task |-> task]

jsonRpcError(error) == [code |-> error, status |-> NONE]

(* --------------------- task engine: pure transitions ------------------ *)

\* faulty variant: the attempt is counted twice
queueTaskForRetry_twice(task) ==
    LET n == (IF task.attemptCount = NULL THEN 0 ELSE task.attemptCount) + 2
    IN [task EXCEPT !.status = "queued_for_retry",
                    !.attemptCount = n,
                    !.lastAttemptAt = now,
                    !.nextRetryTime = now + exponentialBackoff(n)]

queueTaskForRetry(task) ==
    LET n == (IF task.attemptCount = NULL THEN 0 ELSE task.attemptCount) + 1
    IN [task EXCEPT !.status = "queued_for_retry",
                    !.attemptCount = n,
                    !.lastAttemptAt = now,
                    !.nextRetryTime = now + exponentialBackoff(n)]

\* the entry moveToDeadLetter stores in deadLetterTasks
deadLetterEntry(task, reason) ==
    [task EXCEPT !.status = "failed", !.failureReason = reason, !.failedAt = now]

\* faulty variant: a re-send counts as a new attempt
resend_counted(task) ==
    [task EXCEPT !.status = "pending", !.lastAttemptAt = now,
                 !.attemptCount = (IF @ = NULL THEN 0 ELSE @) + 1]

\* the re-send branch: task.status = 'pending'; task.lastAttemptAt = now
resend(task) == [task EXCEPT !.status = "pending", !.lastAttemptAt = now]

\* faulty variant: the deadline is checked for pending tasks only
ReapDeadline_pendingOnly(task) ==
    /\ task.status = "pending"
    /\ IsSet(task.deadline) /\ task.deadline < now

\* faulty variant: the deadline is looked at only for tasks waiting in the retry queue
ReapDeadline_queuedOnly(task) ==
    /\ task.status = "queued_for_retry"
    /\ IsSet(task.deadline) /\ task.deadline < now

\* faulty variant: every task but a completed one is retryable
ReapDeadline_terminal(task) ==
    /\ task.status # "completed"
    /\ IsSet(task.deadline) /\ task.deadline < now

\* what the retry reaper does with one entry of sentTasks
ReapDeadline(task) ==
    /\ task.status \in {"queued_for_retry", "pending"}
    /\ IsSet(task.deadline) /\ task.deadline < now

\* faulty variant: a pending task is processed like a queued one
ReapReady_pending(task) ==
    /\ task.status \in {"queued_for_retry", "pending"}
    /\ ~ReapDeadline(task)
    /\ ~(IsSet(task.nextRetryTime) /\ task.nextRetryTime > now)

ReapReady(task) ==
    /\ task.status = "queued_for_retry"
    /\ ~ReapDeadline(task)
    /\ ~(IsSet(task.nextRetryTime) /\ task.nextRetryTime > now)

ReapResend(task) == ReapReady(task) /\ ReaperFirstMatch(task.target) # 0

\* faulty variant: the attempts are exhausted only above maxAttempts
ReapExhausted_above(task) ==
    /\ ReapReady(task) /\ ReaperFirstMatch(task.target) = 0
    /\ task.attemptCount > maxAttempts

ReapExhausted(task) ==
    /\ ReapReady(task) /\ ReaperFirstMatch(task.target) = 0
    /\ task.attemptCount >= maxAttempts

ReapRequeue(task) ==
    /\ ReapReady(task) /\ ReaperFirstMatch(task.target) = 0
    /\ ~(task.attemptCount >= maxAttempts)

(* ------------------------------- Init --------------------------------- *)

Boot ==
    /\ now = 0
    /\ retryReapAt = reaperIntervalMs
    /\ peers = <<>>
    /\ sentTasks = EmptyTable
    /\ deadLetterTasks = EmptyTable
    /\ nextTaskId = 1
    /\ written = {}
    /\ reply = NoReply
    /\ timeoutReapAt = timeoutIntervalMs
    /\ sockets = NoSockets
    /\ receivedTasks = EmptyTable
    /\ inbox = <<>>
    /\ activeTopics = {DefaultTopic}
    /\ myManifest = DefaultAgentId
    /\ told = [key \in NodeKeys |-> DefaultAgentId]
    /\ entropyEnabled = FALSE

\* the node started without KIZUNA_API_KEY
Init == Boot /\ API_KEY = NoKey

\* the node started with or without KIZUNA_API_KEY
AuthInit == Boot /\ API_KEY \in ApiKeys

(* ------------------------------ actions ------------------------------- *)

\* the wall clock advances; a due interval timer fires before time passes it
AdvanceTime ==
    /\ now < retryReapAt /\ now < timeoutReapAt
    /\ IF now + TimeUnit < EpochLen
       THEN /\ now' = now + TimeUnit
            /\ UNCHANGED <<retryReapAt, timeoutReapAt, peers, sentTasks, deadLetterTasks>>
       ELSE /\ now' = now + TimeUnit - EpochLen
            /\ retryReapAt' = Rebase(retryReapAt)
            /\ timeoutReapAt' = Rebase(timeoutReapAt)
            /\ peers' = [i \in 1..Len(peers) |->
                            [peers[i] EXCEPT !.lastSeen = RebaseSeen(@)]]
            /\ sentTasks' = [id \in DOMAIN sentTasks |-> RebaseTask(sentTasks[id])]
            /\ deadLetterTasks' =
                  [id \in DOMAIN deadLetterTasks |-> RebaseTask(deadLetterTasks[id])]
    /\ written' = {}
    /\ reply' = NoReply
    /\ UNCHANGED <<configVars, nextTaskId, sockets, nodeVars>>

\* faulty variant: a peer is stale from 10 s of silence on
IsStale_atTimeout(p) == now - p.lastSeen >= peerTimeoutMs

\* now - peer.lastSeen > 10000
IsStale(p) == now - p.lastSeen > peerTimeoutMs

\* setInterval(..., 5000): peer.socket.destroy(); cleanupPeer(key)
TimeoutReaper ==
    /\ now = timeoutReapAt
    /\ timeoutReapAt' = timeoutReapAt + timeoutIntervalMs
    /\ LET gone == {peers[i].socket : i \in {j \in 1..Len(peers) : IsStale(peers[j])}}
       IN /\ peers' = SelectSeq(peers, LAMBDA p : ~IsStale(p))
          /\ sockets' = [s \in DOMAIN sockets |->
                            IF s \in gone
                            THEN Socket(sockets[s].key, "closing", FALSE)
                            ELSE sockets[s]]
    /\ written' = {}
    /\ reply' = NoReply
    /\ UNCHANGED <<configVars, now, retryReapAt, taskVars, nodeVars>>

\* faulty variant: the dropped peers keep their heartbeat timers
EntropyReaper_keepTimer(drop) ==
    /\ IF entropyEnabled
       THEN LET gone == {peers[i].socket : i \in {j \in 1..Len(peers) : peers[j].key \in drop}}
            IN /\ peers' = SelectSeq(peers, LAMBDA p : p.key \notin drop)
               /\ sockets' = [s \in DOMAIN sockets |->
                                 IF s \in gone
                                 THEN Socket(sockets[s].key, "closing", sockets[s].interval)
                                 ELSE sockets[s]]
       ELSE UNCHANGED <<peers, sockets>>
    /\ written' = {}
    /\ reply' = NoReply
    /\ UNCHANGED <<configVars, now, retryReapAt, timeoutReapAt, taskVars, nodeVars>>

\* the entropy reaper, setInterval(..., 30000): drop holds the keys for which
\* Math.random() > 0.5 came out; peer.socket.destroy(); cleanupPeer(key)
EntropyReaper(drop) ==
    /\ IF entropyEnabled
       THEN LET gone == {peers[i].socket : i \in {j \in 1..Len(peers) : peers[j].key \in drop}}
            IN /\ peers' = SelectSeq(peers, LAMBDA p : p.key \notin drop)
               /\ sockets' = [s \in DOMAIN sockets |->
                                 IF s \in gone
                                 THEN Socket(sockets[s].key, "closing", FALSE)
                                 ELSE sockets[s]]
       ELSE UNCHANGED <<peers, sockets>>
    /\ written' = {}
    /\ reply' = NoReply
    /\ UNCHANGED <<configVars, now, retryReapAt, timeoutReapAt, taskVars, nodeVars>>

\* setInterval(..., RETRY_CONFIG.reaperIntervalMs)
RetryReaper ==
    /\ now = retryReapAt /\ now < timeoutReapAt
    /\ retryReapAt' = retryReapAt + reaperIntervalMs
    /\ LET ids  == DOMAIN sentTasks
           dead == {id \in ids : ReapDeadline(sentTasks[id]) \/ ReapExhausted(sentTasks[id])}
           keep == ids \ dead
       IN /\ sentTasks' =
                [id \in keep |->
                    LET t == sentTasks[id]
                    IN IF ReapResend(t) THEN resend(t)
                       ELSE IF ReapRequeue(t) THEN queueTaskForRetry(t)
                       ELSE t]
          /\ deadLetterTasks' =
                [id \in DOMAIN deadLetterTasks \cup dead |->
                    IF id \in dead
                    THEN deadLetterEntry(sentTasks[id],
                            IF ReapDeadline(sentTasks[id]) THEN "Deadline exceeded"
                            ELSE PeerOfflineReason(sentTasks[id].attemptCount))
                    ELSE deadLetterTasks[id]]
          /\ written' =
                {TaskRequestFrame(peers[ReaperFirstMatch(sentTasks[id].target)].key,
                                  id, sentTasks[id])
                    : id \in {i \in ids : ReapResend(sentTasks[i])}}
    /\ reply' = NoReply
    /\ UNCHANGED <<configVars, now, timeoutReapAt, peers, nextTaskId, sockets, nodeVars>>

\* swarm.on('connection'): handshake written, heartbeat timer started,
\* peers.set(remoteKey, ...)
Connection(key) ==
    /\ FreeSocket # 0
    /\ LET entry == [key |-> key, manifest |-> NoManifest, lastSeen |-> now,
                     socket |-> FreeSocket]
       IN peers' = IF HasPeer(key)
                   THEN [peers EXCEPT ![PeerIndex(key)] = entry]
                   ELSE Append(peers, entry)
    /\ sockets' = MapSet(sockets, FreeSocket, Socket(key, "open", TRUE))
    /\ written' = {Frame(key, "handshake", 0, NONE, myManifest, NULL)}
    /\ told' = [told EXCEPT ![key] = myManifest]
    /\ reply' = NoReply
    /\ UNCHANGED <<myManifest, API_KEY, entropyEnabled, now, retryReapAt, timeoutReapAt, taskVars, nodeVars>>

\* the stream is destroyed (by the remote end or the network); its 'close'
\* is emitted later
SocketEnd(s) ==
    /\ IsOpen(s)
    /\ sockets' = [sockets EXCEPT ![s].state = "closing"]
    /\ written' = {}
    /\ reply' = NoReply
    /\ UNCHANGED <<configVars, now, retryReapAt, timeoutReapAt, peers, taskVars, nodeVars>>

\* socket.on('error'): cleanupPeer(remoteKey); 'close' follows
SocketError(s) ==
    /\ IsOpen(s)
    /\ peers' = cleanupPeer_peers(peers, sockets[s].key)
    /\ sockets' = [cleanupPeer_sockets(sockets, sockets[s].key) EXCEPT ![s].state = "closing"]
    /\ written' = {}
    /\ reply' = NoReply
    /\ UNCHANGED <<configVars, now, retryReapAt, timeoutReapAt, taskVars, nodeVars>>

\* socket.on('close'): cleanupPeer(remoteKey)
SocketClose(s) ==
    /\ s \in DOMAIN sockets /\ sockets[s].state # "closed"
    /\ peers' = cleanupPeer_peers(peers, sockets[s].key)
    /\ sockets' = Collect([cleanupPeer_sockets(sockets, sockets[s].key)
                              EXCEPT ![s].state = "closed"])
    /\ written' = {}
    /\ reply' = NoReply
    /\ UNCHANGED <<configVars, now, retryReapAt, timeoutReapAt, taskVars, nodeVars>>

\* the heartbeat timer of stream s fires: socket.write of a ping; a write that
\* throws (possible once the stream is destroyed) clears the timer
Heartbeat(s, throws) ==
    /\ s \in DOMAIN sockets /\ sockets[s].interval
    /\ throws => sockets[s].state # "open"
    /\ sockets' = IF throws THEN Collect([sockets EXCEPT ![s].interval = FALSE])
                  ELSE sockets
    /\ written' = IF sockets[s].state = "open"
                  THEN {Frame(sockets[s].key, "ping", 0, NONE, NONE, NULL)}
                  ELSE {}
    /\ reply' = NoReply
    /\ UNCHANGED <<configVars, now, retryReapAt, timeoutReapAt, peers, taskVars, nodeVars>>

\* socket.on('data'), raw.type === 'ping'
RecvPing(key) ==
    /\ peers' = IF HasPeer(key)
                THEN [peers EXCEPT ![PeerIndex(key)].lastSeen = now]
                ELSE peers
    /\ written' = {}
    /\ reply' = NoReply
    /\ UNCHANGED <<configVars, now, retryReapAt, timeoutReapAt, sockets, taskVars, nodeVars>>

\* socket.on('data'), verified envelope of type handshake
RecvHandshake(key, agent_id) ==
    /\ peers' = IF HasPeer(key)
                THEN [peers EXCEPT ![PeerIndex(key)].manifest = agent_id]
                ELSE peers
    /\ written' = {}
    /\ reply' = NoReply
    /\ UNCHANGED <<configVars, now, retryReapAt, timeoutReapAt, sockets, taskVars, nodeVars>>

\* socket.on('data'), verified envelope of type task_request
RecvTaskRequest(key, payload) ==
    /\ receivedTasks' = MapSet(receivedTasks, payload.task_id,
                               [from |-> key, fromShortId |-> ShortId(key),
                                status |-> "pending"])
    /\ inbox' = Append(inbox, InboxRecord(key, payload))
    /\ written' = {}
    /\ reply' = NoReply
    /\ UNCHANGED <<configVars, now, retryReapAt, timeoutReapAt, peers, sockets, taskVars,
                   activeTopics>>

\* faulty variant: a response for an unknown task creates the entry
RecvTaskResponse_upsert(key, task_id, status) ==
    /\ sentTasks' = IF task_id \in DOMAIN sentTasks
                    THEN [sentTasks EXCEPT ![task_id].status = status,
                                           ![task_id].responder = ShortId(key)]
                    ELSE MapSet(sentTasks, task_id,
                                NewTask("*", status, NONE, NONE, NULL, NULL, NULL, NULL,
                                        FALSE, FALSE, NONE))
    /\ inbox' = Append(inbox, InboxRecord(key, Payload("task_response", task_id, status, NONE)))
    /\ written' = {}
    /\ reply' = NoReply
    /\ UNCHANGED <<configVars, now, retryReapAt, timeoutReapAt, peers, sockets, deadLetterTasks,
                   nextTaskId, receivedTasks, activeTopics>>

\* socket.on('data'), verified envelope of type task_response
RecvTaskResponse(key, task_id, status) ==
    /\ sentTasks' = IF task_id \in DOMAIN sentTasks
                    THEN [sentTasks EXCEPT ![task_id].status = status,
                                           ![task_id].responder = ShortId(key)]
                    ELSE sentTasks
    /\ inbox' = Append(inbox, InboxRecord(key, Payload("task_response", task_id, status, NONE)))
    /\ written' = {}
    /\ reply' = NoReply
    /\ UNCHANGED <<configVars, now, retryReapAt, timeoutReapAt, peers, sockets, deadLetterTasks,
                   nextTaskId, receivedTasks, activeTopics>>

\* socket.on('data'), verified envelope of any other type
RecvMessage(key, payload) ==
    /\ inbox' = Append(inbox, InboxRecord(key, payload))
    /\ written' = {}
    /\ reply' = NoReply
    /\ UNCHANGED <<configVars, now, retryReapAt, timeoutReapAt, peers, sockets, taskVars,
                   receivedTasks, activeTopics>>

\* socket.on('data'): nothing is done with the frame
Ignored ==
    /\ written' = {}
    /\ reply' = NoReply
    /\ UNCHANGED <<configVars, now, retryReapAt, timeoutReapAt, peers, sockets, taskVars, nodeVars>>

\* the inbox has room for the record the frame would append: the agent reads
\* the inbox before more than n records wait in it
Room(raw, n) == Dispatched(raw) /\ raw.content.type # "handshake" => Len(inbox) < n

\* socket.on('data') of stream s: parse, ping, signature check, dispatch
SocketData(s, raw) ==
    /\ IsOpen(s)
    /\ LET remoteKey == sockets[s].key
           payload == raw.content
       IN IF ~raw.parses THEN Ignored
          ELSE IF raw.type = "ping" THEN RecvPing(remoteKey)
          ELSE IF HasSignature(raw)
          THEN IF ~verifyMessage(raw) THEN Ignored
               ELSE IF payload.type = "handshake"
                    THEN RecvHandshake(remoteKey, payload.manifest)
               ELSE IF payload.type = "task_request"
                    THEN RecvTaskRequest(remoteKey, payload)
               ELSE IF payload.type = "task_response"
                    THEN RecvTaskResponse(remoteKey, payload.task_id, payload.status)
               ELSE RecvMessage(remoteKey, payload)
          ELSE Ignored

\* requireAuth(req, res, next): 0 when next() is called, else the status of
\* the response; crypto.timingSafeEqual throws on buffers of different byte
\* length and the framework answers 500
requireAuth(authHeader) ==
    IF API_KEY = NoKey THEN 0
    ELSE IF authHeader = NoHeader THEN 401
    ELSE IF ToLowerCase(authHeader[1]) # "bearer" \/ Len(authHeader) < 2 THEN 401
    ELSE IF Length(authHeader[2]) # Length(API_KEY) THEN 403
    ELSE IF ByteLength(authHeader[2]) # ByteLength(API_KEY) THEN 500
    ELSE IF authHeader[2] # API_KEY THEN 403
    ELSE 0

\* the response of requireAuth when it does not call next()
Reject(code) ==
    /\ reply' = [code |-> code, status |-> NONE]
    /\ written' = {}
    /\ UNCHANGED <<configVars, now, retryReapAt, timeoutReapAt, peers, sockets, taskVars,
                   nodeVars>>

\* a route registered with requireAuth: app.post(path, requireAuth, handler)
Guarded(authHeader, handler) ==
    IF requireAuth(authHeader) = 0 THEN handler ELSE Reject(requireAuth(authHeader))

\* faulty variant: the request is written to every peer that matches
TaskRequest_everyMatch(target, task_type, description, deadline) ==
    /\ nextTaskId <= MaxTasks
    /\ nextTaskId' = nextTaskId + 1
    /\ LET task_id == nextTaskId
           m == FirstMatch(target)
       IN IF target # NoTarget /\ target # "*"
          THEN IF m # 0
               THEN /\ written' = {Frame(peers[i].key, "task_request", task_id,
                                         task_type, description, deadline)
                                      : i \in {k \in 1..Len(peers) :
                                                  MatchesTarget(peers[k], target)}}
                    /\ sentTasks' = MapSet(sentTasks, task_id,
                          NewTask(ShortId(peers[m].key), "pending", description,
                                  task_type, deadline, NULL, NULL, NULL, FALSE, FALSE, NONE))
                    /\ reply' = [code |-> 200, status |-> "sent"]
               ELSE /\ written' = {}
                    /\ sentTasks' = MapSet(sentTasks, task_id,
                          NewTask(target, "queued_for_retry", description,
                                  task_type, deadline, 1, now,
                                  now + exponentialBackoff(1), TRUE, FALSE, NONE))
                    /\ reply' = [code |-> 202, status |-> "queued_for_retry"]
          ELSE /\ written' = {Frame(peers[i].key, "task_request", task_id,
                                    task_type, description, deadline)
                                 : i \in 1..Len(peers)}
               /\ sentTasks' = MapSet(sentTasks, task_id,
                     NewTask("*", "pending", description, task_type, deadline,
                             NULL, NULL, NULL, FALSE, FALSE, NONE))
               /\ reply' = [code |-> 200, status |-> "sent"]
    /\ UNCHANGED <<configVars, now, retryReapAt, timeoutReapAt, peers, sockets, deadLetterTasks,
                   nodeVars>>

\* POST /task/request with a body that passes validation
TaskRequest(target, task_type, description, deadline) ==
    /\ nextTaskId <= MaxTasks
    /\ nextTaskId' = nextTaskId + 1
    /\ LET task_id == nextTaskId
           m == FirstMatch(target)
       IN IF target # NoTarget /\ target # "*"
          THEN IF m # 0
               THEN /\ written' = {Frame(peers[m].key, "task_request", task_id,
                                         task_type, description, deadline)}
                    /\ sentTasks' = MapSet(sentTasks, task_id,
                          NewTask(ShortId(peers[m].key), "pending", description,
                                  task_type, deadline, NULL, NULL, NULL, FALSE, FALSE, NONE))
                    /\ reply' = [code |-> 200, status |-> "sent"]
               ELSE /\ written' = {}
                    /\ sentTasks' = MapSet(sentTasks, task_id,
                          NewTask(target, "queued_for_retry", description,
                                  task_type, deadline, 1, now,
                                  now + exponentialBackoff(1), TRUE, FALSE, NONE))
                    /\ reply' = [code |-> 202, status |-> "queued_for_retry"]
          ELSE /\ written' = {Frame(peers[i].key, "task_request", task_id,
                                    task_type, description, deadline)
                                 : i \in 1..Len(peers)}
               /\ sentTasks' = MapSet(sentTasks, task_id,
                     NewTask("*", "pending", description, task_type, deadline,
                             NULL, NULL, NULL, FALSE, FALSE, NONE))
               /\ reply' = [code |-> 200, status |-> "sent"]
    /\ UNCHANGED <<configVars, now, retryReapAt, timeoutReapAt, peers, sockets, deadLetterTasks,
                   nodeVars>>

\* faulty variant: the priority is not validated
Validation_noPriority(body) ==
    IF ~body.description.truthy THEN "description is required"
    ELSE IF body.description.typeof # "string" THEN "description must be a string"
    ELSE IF body.description.length > MAX_DESCRIPTION_LENGTH THEN "description exceeds max length"
    ELSE IF body.target.typeof \notin {"undefined", "string"} THEN "target must be a string"
    ELSE IF body.task_type.truthy /\ body.task_type.text \notin VALID_TASK_TYPES
    THEN "task_type must be one of"
    ELSE IF body.context.truthy /\ body.context.length > MAX_CONTEXT_SIZE
    THEN "context exceeds max size"
    ELSE NONE

\* the validation of POST /task/request: the error of the 400 response, or
\* NONE when the body passes
Validation(body) ==
    IF ~body.description.truthy THEN "description is required"
    ELSE IF body.description.typeof # "string" THEN "description must be a string"
    ELSE IF body.description.length > MAX_DESCRIPTION_LENGTH THEN "description exceeds max length"
    ELSE IF body.target.typeof \notin {"undefined", "string"} THEN "target must be a string"
    ELSE IF body.task_type.truthy /\ body.task_type.text \notin VALID_TASK_TYPES
    THEN "task_type must be one of"
    ELSE IF body.priority.truthy /\ body.priority.text \notin VALID_PRIORITIES
    THEN "priority must be one of"
    ELSE IF body.context.truthy /\ body.context.length > MAX_CONTEXT_SIZE
    THEN "context exceeds max size"
    ELSE NONE

\* a 400 response: nothing but the response happens
BadRequest ==
    /\ reply' = [code |-> 400, status |-> NONE]
    /\ written' = {}
    /\ UNCHANGED <<configVars, now, retryReapAt, timeoutReapAt, peers, sockets, taskVars,
                   nodeVars>>

\* POST /task/request with any body: task_type || 'general', a target that
\* is absent or empty asks for a broadcast
PostTaskRequest(body) ==
    IF Validation(body) # NONE
    THEN BadRequest
    ELSE TaskRequest(IF body.target.truthy THEN body.target.text ELSE NoTarget,
                     IF body.task_type.truthy THEN body.task_type.text ELSE "general",
                     body.description.text, NULL)

\* POST /a2a/v1, method message/send, with valid params
MessageSend(target, text) ==
    /\ nextTaskId <= MaxTasks
    /\ nextTaskId' = nextTaskId + 1
    /\ LET taskId == nextTaskId
           m == FirstMatch(target)
           sent == IF target # NoTarget /\ target # "*"
                   THEN (IF m # 0 THEN {peers[m].key} ELSE {})
                   ELSE {peers[i].key : i \in 1..Len(peers)}
           status == IF sent # {} THEN "pending" ELSE "queued_for_retry"
       IN /\ written' = {Frame(k, "task_request", taskId, "general", text, NULL)
                            : k \in sent}
          /\ sentTasks' = MapSet(sentTasks, taskId,
                NewTask(IF target # NoTarget /\ target # "*" /\ m # 0
                        THEN ShortId(peers[m].key) ELSE "*",
                        status, text, "general", NULL, NULL, NULL, NULL, FALSE, TRUE, target))
          /\ reply' = [code |-> 200, status |-> ktpToA2AState(status)]
    /\ UNCHANGED <<configVars, now, retryReapAt, timeoutReapAt, peers, sockets, deadLetterTasks,
                   nodeVars>>

\* faulty variant: the requeued entry is left in the dead-letter table
TasksRetry_kept(task_id) ==
    /\ IF task_id \in DOMAIN deadLetterTasks
       THEN /\ sentTasks' = MapSet(sentTasks, task_id,
                  [deadLetterTasks[task_id] EXCEPT
                      !.status = "queued_for_retry", !.attemptCount = 0,
                      !.nextRetryTime = now, !.failureReason = NONE,
                      !.failedAt = NULL])
            /\ reply' = [code |-> 200, status |-> "queued_for_retry"]
       ELSE /\ reply' = [code |-> 404, status |-> NONE]
            /\ UNCHANGED sentTasks
    /\ written' = {}
    /\ UNCHANGED <<configVars, now, retryReapAt, timeoutReapAt, peers, sockets, nextTaskId,
                   deadLetterTasks, nodeVars>>

\* faulty variant: the attempt count of the dead-lettered task is carried over
TasksRetry_keepCount(task_id) ==
    /\ IF task_id \in DOMAIN deadLetterTasks
       THEN /\ sentTasks' = MapSet(sentTasks, task_id,
                  [deadLetterTasks[task_id] EXCEPT
                      !.status = "queued_for_retry",
                      !.nextRetryTime = now, !.failureReason = NONE,
                      !.failedAt = NULL])
            /\ deadLetterTasks' = MapDelete(deadLetterTasks, task_id)
            /\ reply' = [code |-> 200, status |-> "queued_for_retry"]
       ELSE /\ reply' = [code |-> 404, status |-> NONE]
            /\ UNCHANGED <<sentTasks, deadLetterTasks>>
    /\ written' = {}
    /\ UNCHANGED <<configVars, now, retryReapAt, timeoutReapAt, peers, sockets, nextTaskId, nodeVars>>

\* POST /tasks/retry/:task_id
TasksRetry(task_id) ==
    /\ IF task_id \in DOMAIN deadLetterTasks
       THEN /\ sentTasks' = MapSet(sentTasks, task_id,
                  [deadLetterTasks[task_id] EXCEPT
                      !.status = "queued_for_retry", !.attemptCount = 0,
                      !.nextRetryTime = now, !.failureReason = NONE,
                      !.failedAt = NULL])
            /\ deadLetterTasks' = MapDelete(deadLetterTasks, task_id)
            /\ reply' = [code |-> 200, status |-> "queued_for_retry"]
       ELSE /\ reply' = [code |-> 404, status |-> NONE]
            /\ UNCHANGED <<sentTasks, deadLetterTasks>>
    /\ written' = {}
    /\ UNCHANGED <<configVars, now, retryReapAt, timeoutReapAt, peers, sockets, nextTaskId, nodeVars>>

\* GET /task/status/:task_id: sentTasks, then receivedTasks, else 404
TaskStatus(task_id) ==
    /\ reply' = IF task_id \in DOMAIN sentTasks
                THEN [code |-> 200, status |-> sentTasks[task_id].status,
                      task_id |-> task_id, direction |-> "sent"]
                ELSE IF task_id \in DOMAIN receivedTasks
                THEN [code |-> 200, status |-> receivedTasks[task_id].status,
                      task_id |-> task_id, direction |-> "received"]
                ELSE [code |-> 404, status |-> NONE]
    /\ written' = {}
    /\ UNCHANGED <<configVars, now, retryReapAt, timeoutReapAt, peers, sockets, taskVars,
                   nodeVars>>

\* faulty variant: the response goes to every connected peer
TaskRespond_broadcast(task_id, status) ==
    /\ IF status \notin {"accepted", "rejected", "in_progress", "completed", "failed"}
       THEN /\ reply' = [code |-> 400, status |-> NONE]
            /\ written' = {}
            /\ UNCHANGED receivedTasks
       ELSE IF task_id \notin DOMAIN receivedTasks
       THEN /\ reply' = [code |-> 404, status |-> NONE]
            /\ written' = {}
            /\ UNCHANGED receivedTasks
       ELSE /\ receivedTasks' = [receivedTasks EXCEPT ![task_id].status = status]
            /\ written' = {Frame(peers[i].key, "task_response", task_id, NONE, status, NULL)
                              : i \in 1..Len(peers)}
            /\ reply' = [code |-> 200, status |-> status]
    /\ UNCHANGED <<configVars, now, retryReapAt, timeoutReapAt, peers, sockets, taskVars, inbox,
                   activeTopics>>

\* POST /task/respond with a task_id
TaskRespond(task_id, status) ==
    /\ IF status \notin {"accepted", "rejected", "in_progress", "completed", "failed"}
       THEN /\ reply' = [code |-> 400, status |-> NONE]
            /\ written' = {}
            /\ UNCHANGED receivedTasks
       ELSE IF task_id \notin DOMAIN receivedTasks
       THEN /\ reply' = [code |-> 404, status |-> NONE]
            /\ written' = {}
            /\ UNCHANGED receivedTasks
       ELSE /\ receivedTasks' = [receivedTasks EXCEPT ![task_id].status = status]
            /\ written' = IF HasPeer(receivedTasks[task_id].from)
                          THEN {Frame(receivedTasks[task_id].from, "task_response",
                                      task_id, NONE, status, NULL)}
                          ELSE {}
            /\ reply' = [code |-> 200, status |-> status]
    /\ UNCHANGED <<configVars, now, retryReapAt, timeoutReapAt, peers, sockets, taskVars, inbox,
                   activeTopics>>

\* POST /task/respond with or without a task_id
PostTaskRespond(task_id, status) ==
    IF task_id = NoTaskId THEN BadRequest ELSE TaskRespond(task_id, status)

\* faulty variant: the received table is looked up first
TasksGet_receivedFirst(taskId) ==
    /\ reply' = IF taskId = NoTaskId THEN jsonRpcError(INVALID_PARAMS)
                ELSE IF taskId \in DOMAIN receivedTasks
                THEN jsonRpcSuccess(ktpTaskToA2ATask(receivedTasks[taskId], taskId, "received"))
                ELSE IF taskId \in DOMAIN sentTasks
                THEN jsonRpcSuccess(ktpTaskToA2ATask(sentTasks[taskId], taskId, "sent"))
                ELSE IF taskId \in DOMAIN deadLetterTasks
                THEN jsonRpcSuccess(ktpTaskToA2ATask(deadLetterTasks[taskId], taskId, "failed"))
                ELSE jsonRpcError(TASK_NOT_FOUND)
    /\ written' = {}
    /\ UNCHANGED <<configVars, now, retryReapAt, timeoutReapAt, peers, sockets, taskVars,
                   nodeVars>>

\* POST /a2a/v1, method tasks/get
TasksGet(taskId) ==
    /\ reply' = IF taskId = NoTaskId THEN jsonRpcError(INVALID_PARAMS)
                ELSE IF taskId \in DOMAIN sentTasks
                THEN jsonRpcSuccess(ktpTaskToA2ATask(sentTasks[taskId], taskId, "sent"))
                ELSE IF taskId \in DOMAIN receivedTasks
                THEN jsonRpcSuccess(ktpTaskToA2ATask(receivedTasks[taskId], taskId, "received"))
                ELSE IF taskId \in DOMAIN deadLetterTasks
                THEN jsonRpcSuccess(ktpTaskToA2ATask(deadLetterTasks[taskId], taskId, "failed"))
                ELSE jsonRpcError(TASK_NOT_FOUND)
    /\ written' = {}
    /\ UNCHANGED <<configVars, now, retryReapAt, timeoutReapAt, peers, sockets, taskVars,
                   nodeVars>>

\* faulty variant: the changed manifest is stored and not announced
Manifest_silent(agent_id) ==
    /\ myManifest' = IF agent_id # NONE THEN agent_id ELSE myManifest
    /\ written' = {}
    /\ reply' = [code |-> 200, status |-> "updated"]
    /\ UNCHANGED <<told, API_KEY, entropyEnabled, now, retryReapAt, timeoutReapAt, peers, sockets, taskVars,
                   nodeVars>>

\* POST /manifest with an agent_id or without: the manifest is updated and
\* a handshake carrying it is written to every peer of the table
Manifest(agent_id) ==
    /\ myManifest' = IF agent_id # NONE THEN agent_id ELSE myManifest
    /\ written' = {Frame(peers[i].key, "handshake", 0, NONE, myManifest', NULL)
                      : i \in 1..Len(peers)}
    /\ told' = [key \in DOMAIN told |-> IF HasPeer(key) THEN myManifest' ELSE told[key]]
    /\ reply' = [code |-> 200, status |-> "updated"]
    /\ UNCHANGED <<API_KEY, entropyEnabled, now, retryReapAt, timeoutReapAt, peers, sockets, taskVars,
                   nodeVars>>

\* faulty variant: the loopback copy is left out
Broadcast_noLoopback(content) ==
    /\ written' = {Frame(peers[i].key, content.type, content.task_id, NONE, NONE, NULL)
                      : i \in 1..Len(peers)}
    /\ reply' = [code |-> 200, status |-> "ok", sent_to |-> Len(peers)]
    /\ UNCHANGED <<configVars, now, retryReapAt, timeoutReapAt, peers, sockets, taskVars,
                   nodeVars>>

\* POST /broadcast with a content: the signed envelope is written to every
\* peer and a copy is pushed to the local inbox
Broadcast(content) ==
    /\ written' = {Frame(peers[i].key, content.type, content.task_id, NONE, NONE, NULL)
                      : i \in 1..Len(peers)}
    /\ inbox' = Append(inbox, [sender |-> myPeerId, senderShortId |-> SelfShortId(myPeerId),
                               type |-> content.type])
    /\ reply' = [code |-> 200, status |-> "ok", sent_to |-> Len(peers)]
    /\ UNCHANGED <<configVars, now, retryReapAt, timeoutReapAt, peers, sockets, taskVars,
                   receivedTasks, activeTopics>>

\* faulty variant: the newest record is kept back
GetInbox_keepLast ==
    /\ inbox' = IF inbox = <<>> THEN <<>> ELSE <<inbox[Len(inbox)]>>
    /\ written' = {}
    /\ reply' = [code |-> 200, status |-> NONE,
                 messages |-> IF inbox = <<>> THEN <<>> ELSE SubSeq(inbox, 1, Len(inbox) - 1)]
    /\ UNCHANGED <<configVars, now, retryReapAt, timeoutReapAt, peers, sockets, taskVars,
                   receivedTasks, activeTopics>>

\* GET /inbox: the messages are returned and the inbox is emptied
GetInbox ==
    /\ inbox' = <<>>
    /\ written' = {}
    /\ reply' = [code |-> 200, status |-> NONE, messages |-> inbox]
    /\ UNCHANGED <<configVars, now, retryReapAt, timeoutReapAt, peers, sockets, taskVars,
                   receivedTasks, activeTopics>>

\* POST /join with a topic: joinTopic
Join(topic) ==
    /\ activeTopics' = activeTopics \cup {topic}
    /\ written' = {}
    /\ reply' = [code |-> 200, status |-> "joined"]
    /\ UNCHANGED <<configVars, now, retryReapAt, timeoutReapAt, peers, sockets, taskVars,
                   receivedTasks, inbox>>

\* POST /leave with a topic: leaveTopic
Leave(topic) ==
    /\ IF topic \in activeTopics
       THEN /\ activeTopics' = activeTopics \ {topic}
            /\ reply' = [code |-> 200, status |-> "left"]
       ELSE /\ reply' = [code |-> 404, status |-> NONE]
            /\ UNCHANGED activeTopics
    /\ written' = {}
    /\ UNCHANGED <<configVars, now, retryReapAt, timeoutReapAt, peers, sockets, taskVars,
                   receivedTasks, inbox>>

\* the remote key has no stream: the engine's peers hold one stream at a time
NoStream(key) == \A s \in DOMAIN sockets : sockets[s].key # key

Next ==
    \/ AdvanceTime
    \/ TimeoutReaper
    \/ RetryReaper
    \/ \E key \in PeerKeys : NoStream(key) /\ Connection(key)
    \/ \E s \in SocketIds : SocketClose(s)
    \/ \E s \in SocketIds, raw \in EngineFrames : Room(raw, MaxInbox) /\ SocketData(s, raw)
    \/ \E target \in Targets, task_type \in TaskTypes, deadline \in Deadlines :
          TaskRequest(target, task_type, "x", deadline)
    \/ \E target \in Targets : MessageSend(target, "Do X")
    \/ \E task_id \in TaskIds : TasksRetry(task_id)
    \/ GetInbox

Spec == Init /\ [][Next]_vars

\* the clock advances and setInterval keeps firing the two reapers
FairSpec ==
    Spec /\ WF_vars(AdvanceTime) /\ WF_vars(TimeoutReaper) /\ WF_vars(RetryReaper)

\* the streams of one remote key: they come, fail, time out and go, also
\* while an earlier stream of the key still exists
SessionNext ==
    \/ AdvanceTime
    \/ TimeoutReaper
    \/ RetryReaper
    \/ \E key \in PeerKeys : Connection(key)
    \/ \E s \in SocketIds : SocketEnd(s)
    \/ \E s \in SocketIds : SocketError(s)
    \/ \E s \in SocketIds : SocketClose(s)
    \/ \E s \in SocketIds, throws \in BOOLEAN : Heartbeat(s, throws)
    \/ \E s \in SocketIds, raw \in SessionFrames : SocketData(s, raw)

SessionSpec == Init /\ [][SessionNext]_vars

\* the node between two ticks of its clock: frames of every kind arrive from
\* two remote keys, the agent answers received tasks, reads the inbox and
\* joins and leaves topics
NodeNext ==
    \/ \E key \in NodeKeys : NoStream(key) /\ Connection(key)
    \/ \E s \in SocketIds : SocketClose(s)
    \/ \E s \in SocketIds, raw \in NodeFrames : Room(raw, MaxInbox) /\ SocketData(s, raw)
    \/ \E task_id \in TaskIds, status \in RespondStatuses : TaskRespond(task_id, status)
    \/ GetInbox
    \/ \E topic \in Topics : Join(topic)
    \/ \E topic \in Topics : Leave(topic)
    \/ \E agent_id \in ManifestUpdates : Manifest(agent_id)

NodeSpec == Init /\ [][NodeNext]_vars

\* the inbox between two ticks of the clock: a peer's frames and the local
\* broadcasts fill it, the agent reads it
InboxNext ==
    \/ \E key \in PeerKeys : NoStream(key) /\ Connection(key)
    \/ \E s \in SocketIds : SocketClose(s)
    \/ \E s \in SocketIds, raw \in InboxFrames : Room(raw, MaxBacklog) /\ SocketData(s, raw)
    \/ \E content \in Contents : Len(inbox) < MaxBacklog /\ Broadcast(content)
    \/ GetInbox

InboxSpec == Init /\ [][InboxNext]_vars

\* the two task endpoints called with every kind of body, between two ticks
\* of the clock
ValidationNext ==
    \/ \E key \in PeerKeys : NoStream(key) /\ Connection(key)
    \/ \E s \in SocketIds : SocketClose(s)
    \/ \E s \in SocketIds, raw \in InboxFrames : Room(raw, MaxInbox) /\ SocketData(s, raw)
    \/ \E body \in RequestBodies : PostTaskRequest(body)
    \/ \E task_id \in TaskIds \cup {NoTaskId}, status \in RespondStatuses :
          PostTaskRespond(task_id, status)

ValidationSpec == Init /\ [][ValidationNext]_vars

\* ids tasks/get is called with: the ids in use, one more, and none
LookupIds == 0..(MaxTasks + 1)

\* targets that are offline for good, and the broadcast
LookupTargets == {"nobody", "*"}

\* the task tables as the A2A gateway reads them: tasks are sent and queued,
\* fail for good and are requeued, a peer sends requests under its own ids
GatewayNext ==
    \/ AdvanceTime
    \/ TimeoutReaper
    \/ RetryReaper
    \/ \E key \in PeerKeys : NoStream(key) /\ Connection(key)
    \/ \E s \in SocketIds, raw \in GatewayFrames : Room(raw, MaxInbox) /\ SocketData(s, raw)
    \/ \E target \in LookupTargets, task_type \in TaskTypes :
          TaskRequest(target, task_type, "x", NULL)
    \/ \E task_id \in TaskIds : TasksRetry(task_id)
    \/ \E taskId \in LookupIds : TasksGet(taskId)
    \/ \E task_id \in TaskIds : TaskStatus(task_id)

GatewaySpec == Init /\ [][GatewayNext]_vars

\* targets of a request when two peers are known
DeliveryTargets == Targets \cup {"id2"}

\* the delivery of a request among two peers that connect, announce the same
\* agent_id and leave, between two ticks of the clock
DeliveryNext ==
    \/ \E key \in NodeKeys : NoStream(key) /\ Connection(key)
    \/ \E s \in SocketIds : SocketClose(s)
    \/ \E s \in SocketIds, raw \in HandshakeFrames : SocketData(s, raw)
    \/ \E target \in DeliveryTargets, task_type \in TaskTypes :
          TaskRequest(target, task_type, "x", NULL)

DeliverySpec == Init /\ [][DeliveryNext]_vars

\* POST /entropy
Entropy ==
    /\ entropyEnabled' = ~entropyEnabled
    /\ reply' = [code |-> 200, status |-> NONE, enabled |-> entropyEnabled']
    /\ written' = {}
    /\ UNCHANGED <<myManifest, told, API_KEY, now, retryReapAt, timeoutReapAt, peers, sockets,
                   taskVars, nodeVars>>

\* two peers come and go while the entropy flag is switched and the entropy
\* reaper fires, between two ticks of the other timers
EntropyNext ==
    \/ \E key \in NodeKeys : NoStream(key) /\ Connection(key)
    \/ \E s \in SocketIds : SocketClose(s)
    \/ \E s \in SocketIds, throws \in BOOLEAN : Heartbeat(s, throws)
    \/ Entropy
    \/ \E drop \in SUBSET NodeKeys : EntropyReaper(drop)

EntropySpec == Init /\ [][EntropyNext]_vars

\* the retry queue: tasks are queued by both endpoints, with and without
\* nextRetryTime, peers come, answer and go, failed tasks are requeued
RetryNext ==
    \/ AdvanceTime
    \/ TimeoutReaper
    \/ RetryReaper
    \/ \E key \in PeerKeys : NoStream(key) /\ Connection(key)
    \/ \E s \in SocketIds : SocketClose(s)
    \/ \E s \in SocketIds, raw \in RetryFrames : Room(raw, MaxInbox) /\ SocketData(s, raw)
    \/ \E target \in Targets, deadline \in Deadlines :
          TaskRequest(target, "general", "x", deadline)
    \/ \E target \in Targets : MessageSend(target, "Do X")
    \/ \E task_id \in TaskIds : TasksRetry(task_id)
    \/ GetInbox

\* the clock advances and setInterval keeps firing the two reapers
RetrySpec ==
    /\ Init /\ [][RetryNext]_vars
    /\ WF_vars(AdvanceTime) /\ WF_vars(TimeoutReaper) /\ WF_vars(RetryReaper)

\* GET /stats, registered without requireAuth
Stats ==
    /\ reply' = [code |-> 200, status |-> NONE, direct |-> Len(peers)]
    /\ written' = {}
    /\ UNCHANGED <<configVars, now, retryReapAt, timeoutReapAt, peers, sockets, taskVars,
                   nodeVars>>

\* the control plane of a node started with or without an API key, between
\* two ticks of the clock: requests arrive with every kind of Authorization
\* header
AuthNext ==
    \/ \E key \in PeerKeys : NoStream(key) /\ Connection(key)
    \/ \E h \in AuthHeaders, agent_id \in ManifestUpdates : Guarded(h, Manifest(agent_id))
    \/ \E h \in AuthHeaders, topic \in Topics : Guarded(h, Join(topic))
    \/ \E h \in AuthHeaders, topic \in Topics : Guarded(h, Leave(topic))
    \/ \E h \in AuthHeaders, content \in Contents :
          Len(inbox) < MaxInbox /\ Guarded(h, Broadcast(content))
    \/ \E h \in AuthHeaders : Guarded(h, GetInbox)
    \/ \E h \in AuthHeaders, target \in Targets : Guarded(h, MessageSend(target, "Do X"))
    \/ Stats

AuthSpec == AuthInit /\ [][AuthNext]_vars

(* ------------------------------- claims ------------------------------- *)

KtpStatuses == {"pending", "queued_for_retry", "accepted", "in_progress",
                "completed", "failed", "rejected"}

TerminalStatuses == {"completed", "failed", "rejected"}

DeadlinePassed(task) == IsSet(task.deadline) /\ task.deadline < now

\* the reaper has fired at the current instant
ReaperJustRan == retryReapAt = now + reaperIntervalMs

\* C1: no task_id is in both the sent-task table and the dead-letter table.
C1_TablesDisjoint == DOMAIN sentTasks \cap DOMAIN deadLetterTasks = {}

\* a dead-lettered task has been requeued by /tasks/retry
C1_Witness ==
    /\ reply = [code |-> 200, status |-> "queued_for_retry"]
    /\ \E id \in DOMAIN sentTasks :
          /\ sentTasks[id].attemptCount = 0
          /\ id \notin DOMAIN deadLetterTasks

\* C2: every sent-task has attemptCount <= maxAttempts (an entry that has no
\* attemptCount yet counts as 0, as queueTaskForRetry reads it).
C2_AttemptsBounded ==
    \A id \in DOMAIN sentTasks :
        LET n == sentTasks[id].attemptCount
        IN (IF n = NULL THEN 0 ELSE n) <= maxAttempts

\* a task the reaper has rescheduled up to the last attempt
C2_Witness ==
    \E id \in DOMAIN sentTasks :
        /\ sentTasks[id].attemptCount = maxAttempts
        /\ sentTasks[id].status = "queued_for_retry"

\* C3: every sent-task in status queued_for_retry has nextRetryTime set.
C3_QueuedHasRetryTime ==
    \A id \in DOMAIN sentTasks :
        sentTasks[id].status = "queued_for_retry" => IsSet(sentTasks[id].nextRetryTime)

\* a target that names a specific peer
NamedTargets == Targets \ {NoTarget, "*"}

QueuedForNobody(id) ==
    /\ id \in DOMAIN sentTasks
    /\ sentTasks[id].peerWasOffline
    /\ sentTasks[id].target = "nobody"
    /\ sentTasks[id].deadline = NULL
    /\ sentTasks[id].status = "queued_for_retry"

RetriesExhausted(id) ==
    /\ id \in DOMAIN deadLetterTasks
    /\ id \notin DOMAIN sentTasks
    /\ deadLetterTasks[id].failureReason = "Peer offline after 3 attempts"

\* C5: a task queued for an offline target, without deadline, whose target is
\* never live, is eventually dead-lettered with "Peer offline after 3 attempts".
C5_EventuallyDeadLettered ==
    \A id \in TaskIds : QueuedForNobody(id) ~> RetriesExhausted(id)

FramesFor(frames, id) == {f \in frames : f.type = "task_request" /\ f.task_id = id}

\* the effect of a re-send of task id on the next state
Resent(id) ==
    /\ id \in DOMAIN sentTasks'
    /\ sentTasks'[id] = [sentTasks[id] EXCEPT !.status = "pending", !.lastAttemptAt = now]
    /\ \E f \in written' :
          /\ FramesFor(written', id) = {f}
          /\ \E i \in 1..Len(peers) :
                peers[i].key = f.to /\ MatchesTarget(peers[i], sentTasks[id].target)
          /\ f.task_type = sentTasks[id].task_type
          /\ f.payload = sentTasks[id].payload
          /\ f.deadline = sentTasks[id].deadline

DueWithLivePeer(id) ==
    /\ sentTasks[id].status = "queued_for_retry"
    /\ IsSet(sentTasks[id].nextRetryTime) /\ now >= sentTasks[id].nextRetryTime
    /\ \E i \in 1..Len(peers) : MatchesTarget(peers[i], sentTasks[id].target)

\* C7 (as claimed): at a reaper tick with now >= nextRetryTime and a live peer
\* matching the target, a queued_for_retry task is re-sent to that peer with
\* its original task_id, task_type, payload and deadline, becomes pending,
\* gets lastAttemptAt = now and keeps its attemptCount.
C7_Claimed ==
    [][RetryReaper => \A id \in DOMAIN sentTasks : DueWithLivePeer(id) => Resent(id)]_vars

\* C7 (amended): the same, for a task whose deadline is unset or not earlier
\* than now.
C7_DueTaskResent ==
    [][RetryReaper =>
         \A id \in DOMAIN sentTasks :
            (DueWithLivePeer(id) /\ ~DeadlinePassed(sentTasks[id])) => Resent(id)]_vars

\* a task queued at submission has just been re-sent, deadline still open
C7_Witness ==
    /\ ReaperJustRan
    /\ \E id \in DOMAIN sentTasks :
          /\ sentTasks[id].peerWasOffline
          /\ sentTasks[id].status = "pending"
          /\ sentTasks[id].lastAttemptAt = now
          /\ sentTasks[id].attemptCount = 1
          /\ IsSet(sentTasks[id].deadline)
          /\ FramesFor(written, id) # {}

\* C8: once a sent-task is completed, failed or rejected, no step changes
\* its status.
C8_TerminalAbsorbing ==
    [][\A id \in DOMAIN sentTasks :
          sentTasks[id].status \in TerminalStatuses
          => /\ id \in DOMAIN sentTasks'
             /\ sentTasks'[id].status = sentTasks[id].status]_vars

\* C9: a reaper tick leaves every completed, failed or rejected sent-task
\* unchanged and writes no frame for it, and leaves every dead-letter entry
\* unchanged.
C9_ReaperSkipsTerminal ==
    [][RetryReaper =>
         /\ \A id \in DOMAIN sentTasks :
               sentTasks[id].status \in TerminalStatuses
               => /\ id \in DOMAIN sentTasks'
                  /\ sentTasks'[id] = sentTasks[id]
                  /\ id \notin DOMAIN deadLetterTasks'
                  /\ FramesFor(written', id) = {}
         /\ \A id \in DOMAIN deadLetterTasks :
               /\ id \in DOMAIN deadLetterTasks'
               /\ deadLetterTasks'[id] = deadLetterTasks[id]]_vars

\* a tick has passed over a terminal task whose deadline is behind it
C9_Witness ==
    /\ ReaperJustRan
    /\ written = {}
    /\ \E id \in DOMAIN sentTasks :
          /\ sentTasks[id].status \in TerminalStatuses
          /\ sentTasks[id].deadline = Past

\* C10: the status of every sent-task is one of the seven KTP statuses.
C10_StatusInEnum ==
    \A id \in DOMAIN sentTasks : sentTasks[id].status \in KtpStatuses

(* ---------------------- claims on sessions (C11-C13) ------------------- *)

\* time since the last ping of a peer entry
Silence(p) == now - p.lastSeen

\* the keys of a peer table
KeysOf(prs) == {prs[i].key : i \in 1..Len(prs)}

\* C11 as stated: a timeout-reaper tick evicts a peer only when its silence
\* is at least 10 s and less than 15 s.
C11_Claimed ==
    [][TimeoutReaper =>
         \A i \in 1..Len(peers) :
            peers[i].key \notin KeysOf(peers')
            => /\ peerTimeoutMs <= Silence(peers[i])
               /\ Silence(peers[i]) < peerTimeoutMs + timeoutIntervalMs]_vars

\* C11 (amended): a timeout-reaper tick evicts exactly the peers whose
\* silence is more than 10 s, none of them silent for more than 15 s, and
\* keeps the others; no peer is in the table with a silence above 15 s.
C11_EvictionWindow ==
    [][/\ TimeoutReaper =>
            \A i \in 1..Len(peers) :
               IF peers[i].key \notin KeysOf(peers')
               THEN /\ peerTimeoutMs < Silence(peers[i])
                    /\ Silence(peers[i]) <= peerTimeoutMs + timeoutIntervalMs
               ELSE Silence(peers[i]) <= peerTimeoutMs
       /\ \A j \in 1..Len(peers') :
             now' - peers'[j].lastSeen <= peerTimeoutMs + timeoutIntervalMs]_vars

\* a tick has just run over a peer that was silent for exactly 10 s and
\* kept it: this peer goes at the next tick, 15 s after its last ping
C11_Witness ==
    /\ timeoutReapAt = now + timeoutIntervalMs
    /\ \E i \in 1..Len(peers) : Silence(peers[i]) = peerTimeoutMs

\* the streams of a key whose heartbeat timer is running
LiveTimers(socks, key) ==
    {s \in DOMAIN socks : socks[s].key = key /\ socks[s].interval}

\* C12: every key in the peer table has exactly one running heartbeat timer:
\* none is missing, none is duplicated or left over from an earlier stream.
C12_OneHeartbeatPerPeer ==
    \A key \in KeysOf(peers) : Cardinality(LiveTimers(sockets, key)) = 1

\* the peer table's entry was stored for stream s
IsCurrent(s) == \E i \in 1..Len(peers) : peers[i].socket = s

\* C13: the close or error of a stream, and its eviction by the timeout
\* reaper, cancel the heartbeat timer of that stream and remove its entry; a
\* close or error of a stream whose entry is already gone changes neither the
\* peer table nor the timer of another stream.
C13_SessionEndCleansOnce ==
    [][/\ \A s \in SocketIds :
             SocketClose(s) \/ SocketError(s)
             => /\ s \in DOMAIN sockets' => ~sockets'[s].interval
                /\ ~IsCurrent(s)
                   => /\ peers' = peers
                      /\ \A r \in DOMAIN sockets \ {s} :
                            /\ r \in DOMAIN sockets'
                            /\ sockets'[r].interval = sockets[r].interval
       /\ TimeoutReaper
          => \A i \in 1..Len(peers) :
                peers[i].key \notin KeysOf(peers')
                => ~sockets'[peers[i].socket].interval]_vars

(* ------------------- claims on inbound frames (C14-C16) ---------------- *)

\* the frame is an envelope with signature and senderKey, and the signature
\* is the one senderKey's key pair makes over the content
WellSigned(raw) ==
    /\ raw.parses
    /\ raw.senderKey # NONE
    /\ raw.signature # NoSignature
    /\ raw.signature = Signature(raw.senderKey, raw.content)

\* the manifest stored for each key of a peer table
Manifests(prs) == {<<prs[i].key, prs[i].manifest>> : i \in 1..Len(prs)}

\* C14: a frame that is malformed, lacks signature or senderKey, or fails
\* verification changes no manifest, received-task, sent-task or inbox
\* record and leaves the peer entry and the stream as they are, so that
\* later frames of the stream are still handled: a step that changes one of
\* them is the arrival of no such frame.
C14_OnlyVerifiedFramesDispatch ==
    [][\/ /\ Manifests(peers') = Manifests(peers)
          /\ UNCHANGED <<receivedTasks, sentTasks, inbox>>
          /\ sockets' = sockets
       \/ \A s \in SocketIds, raw \in NodeFrames :
             IsOpen(s) /\ ~WellSigned(raw) => ~SocketData(s, raw)]_vars

\* verified frames have been dispatched on an open stream: a manifest, a
\* received task and an inbox record are stored
C14_Witness ==
    /\ \E s \in SocketIds : IsOpen(s) /\ IsCurrent(s)
    /\ \E i \in 1..Len(peers) : peers[i].manifest # NoManifest
    /\ receivedTasks # EmptyTable
    /\ inbox # <<>>

\* C15: the sender of every record put into the inbox is the identity key
\* of the node that sent the frame, the senderKey of its envelope.
C15_InboxSenderIsIdentity ==
    [][\A s \in SocketIds, raw \in NodeFrames :
          SocketData(s, raw) /\ Len(inbox') > Len(inbox)
          => inbox'[Len(inbox')].sender = raw.senderKey]_vars

\* the task was sent to, or is waiting for, the peer with this key
TargetedAt(key, target) ==
    \/ target = "*"
    \/ target = ShortId(key)
    \/ HasPeer(key) /\ MatchesTarget(peers[PeerIndex(key)], target)

\* C16: a task_response changes a sent-task only when it comes from the
\* peer the task was targeted at.
C16_ResponseFromTarget ==
    [][\A s \in SocketIds, raw \in EngineFrames :
          SocketData(s, raw) /\ sentTasks' # sentTasks
          => TargetedAt(sockets[s].key, sentTasks[raw.content.task_id].target)]_vars

(* ------------------- claims on the gateways (C17-C20) ------------------ *)

\* C17: the task_request of an A2A message/send that names a target is
\* written only to a peer whose short id or agent_id matches that target,
\* at submission and at every later tick of the retry reaper.
C17_A2ATargetRespected ==
    [][\A f \in written' :
          /\ f.type = "task_request"
          /\ f.task_id \in DOMAIN sentTasks'
          /\ sentTasks'[f.task_id].a2aSource
          /\ sentTasks'[f.task_id].requested \notin {NoTarget, "*"}
          => \E i \in 1..Len(peers) :
                /\ peers[i].key = f.to
                /\ MatchesTarget(peers[i], sentTasks'[f.task_id].requested)]_vars

\* C18: the default topic is always in the topic map.
C18_DefaultTopicKept == DefaultTopic \in activeTopics

\* position of a received-task status on pending -> accepted -> in_progress
\* -> completed | failed | rejected
Rank(status) ==
    CASE status = "pending" -> 0
      [] status = "accepted" -> 1
      [] status = "in_progress" -> 2
      [] OTHER -> 3

\* C19: POST /task/respond never moves the status of a received task
\* backwards and never changes a terminal status.
C19_ReceivedStatusForward ==
    [][\A task_id \in TaskIds, status \in RespondStatuses :
          TaskRespond(task_id, status) /\ task_id \in DOMAIN receivedTasks
          => /\ Rank(receivedTasks'[task_id].status) >= Rank(receivedTasks[task_id].status)
             /\ receivedTasks[task_id].status \in TerminalStatuses
                => receivedTasks'[task_id].status = receivedTasks[task_id].status]_vars

\* the task_response frames among the frames written in a step
Responses(frames) == {f \in frames : f.type = "task_response"}

\* C20: a valid POST /task/respond for a received task stores the status and
\* writes one task_response frame, to the peer whose key is the task's from
\* and to no other; without such a peer it writes nothing and still stores
\* the status.  No other step writes a task_response.
C20_RespondFrame ==
    [][/\ \A task_id \in TaskIds, status \in RespondStatuses \ {"bogus"} :
             TaskRespond(task_id, status) /\ task_id \in DOMAIN receivedTasks
             => /\ receivedTasks'[task_id].status = status
                /\ written' =
                      IF receivedTasks[task_id].from \in KeysOf(peers)
                      THEN {Frame(receivedTasks[task_id].from, "task_response",
                                  task_id, NONE, status, NULL)}
                      ELSE {}
       /\ Responses(written') # {}
          => \E task_id \in TaskIds, status \in RespondStatuses :
                TaskRespond(task_id, status)]_vars

\* the agent has answered a task of one peer while another peer is
\* connected as well: one frame went out, to the task's sender
C20_Witness ==
    /\ Len(peers) = 2
    /\ reply.code = 200
    /\ \E id \in DOMAIN receivedTasks :
          /\ receivedTasks[id].status = "completed"
          /\ Responses(written) =
                {Frame(receivedTasks[id].from, "task_response", id, NONE, "completed", NULL)}

(* ------------------- claims on the control plane (C21-C27) ------------- *)

\* the fields POST /tasks/retry sets or clears
RequeuedFields == {"status", "attemptCount", "nextRetryTime", "failureReason", "failedAt"}

\* C21: POST /tasks/retry/<id> for an id in the dead-letter table removes
\* the entry from it and puts it into the sent-task table with status
\* queued_for_retry, attemptCount 0, nextRetryTime now, failureReason and
\* failedAt cleared and every other field as it was; for any other id it
\* answers 404 and changes no table.
C21_ManualRequeue ==
    [][\A task_id \in TaskIds :
          TasksRetry(task_id)
          => IF task_id \in DOMAIN deadLetterTasks
             THEN LET old == deadLetterTasks[task_id]
                      new == sentTasks'[task_id]
                  IN /\ task_id \in DOMAIN sentTasks'
                     /\ task_id \notin DOMAIN deadLetterTasks'
                     /\ new.status = "queued_for_retry"
                     /\ new.attemptCount = 0
                     /\ new.nextRetryTime = now
                     /\ new.failureReason = NONE
                     /\ new.failedAt = NULL
                     /\ DOMAIN new = DOMAIN old
                     /\ \A f \in DOMAIN old \ RequeuedFields : new[f] = old[f]
                     /\ \A id \in DOMAIN sentTasks : sentTasks'[id] = sentTasks[id]
                     /\ reply'.code = 200
             ELSE /\ reply'.code = 404
                  /\ UNCHANGED <<sentTasks, deadLetterTasks, receivedTasks>>]_vars

\* a task that had used up its attempts has been requeued by hand
C21_Witness ==
    /\ reply = [code |-> 200, status |-> "queued_for_retry"]
    /\ deadLetterTasks = EmptyTable
    /\ \E id \in DOMAIN sentTasks :
          /\ sentTasks[id].status = "queued_for_retry"
          /\ sentTasks[id].nextRetryTime = now
          /\ sentTasks[id].lastAttemptAt # NULL
          /\ sentTasks[id].peerWasOffline

\* C22: the last handshake written to every peer of the peer table carries
\* the current local manifest.
C22_PeersHoldCurrentManifest ==
    \A i \in 1..Len(peers) : told[peers[i].key] = myManifest

\* the manifest was changed while two peers were connected, and the
\* handshake with the new manifest went to both
C22_Witness ==
    /\ Len(peers) = 2
    /\ myManifest # DefaultAgentId
    /\ written = {Frame(key, "handshake", 0, NONE, myManifest, NULL) : key \in NodeKeys}

\* C23: a read of the inbox returns the records that wait in it, in the
\* order they were appended, and leaves it empty; every other step leaves
\* the inbox as it is or appends one record at its end.  So each record is
\* returned by exactly one read, and a read that follows a read with no
\* append in between returns nothing.
C23_InboxDrain ==
    [][/\ GetInbox => reply'.messages = inbox /\ inbox' = <<>>
       /\ ~GetInbox => \/ inbox' = inbox
                       \/ \E r \in {inbox'[Len(inbox')]} : inbox' = Append(inbox, r)]_vars

\* a read has returned a peer's record followed by a loopback record
C23_Witness ==
    /\ inbox = <<>>
    /\ "messages" \in DOMAIN reply
    /\ Len(reply.messages) >= 2
    /\ reply.messages[1].sender \in PeerKeys
    /\ reply.messages[2].sender = myPeerId

\* C24: POST /broadcast writes the envelope once to every peer of the peer
\* table and appends one record to the inbox, with the node's own public key
\* as sender and the content of the call; the record is in the inbox when
\* the call has returned.
C24_BroadcastLoopback ==
    [][\A content \in Contents :
          Broadcast(content)
          => /\ {f.to : f \in written'} = KeysOf(peers)
             /\ Cardinality(written') = Len(peers)
             /\ \A f \in written' : f.type = content.type
             /\ Len(inbox') = Len(inbox) + 1
             /\ SubSeq(inbox', 1, Len(inbox)) = inbox
             /\ inbox'[Len(inbox')].sender = myPeerId
             /\ inbox'[Len(inbox')].type = content.type
             /\ reply'.code = 200]_vars

\* a broadcast went to the connected peer and its copy waits in the inbox
\* behind a record of that peer
C24_Witness ==
    /\ Len(peers) = 1
    /\ Len(inbox) = 2
    /\ inbox[1].sender \in PeerKeys
    /\ inbox[2] = [sender |-> myPeerId, senderShortId |-> SelfShortId(myPeerId), type |-> "NOTE"]
    /\ written = {Frame(peers[1].key, "NOTE", 0, NONE, NONE, NULL)}

\* a request to a route registered with requireAuth, sent with header h
SensitiveRequest(h) ==
    \/ \E agent_id \in ManifestUpdates : Guarded(h, Manifest(agent_id))
    \/ \E topic \in Topics : Guarded(h, Join(topic)) \/ Guarded(h, Leave(topic))
    \/ \E content \in Contents : Guarded(h, Broadcast(content))
    \/ Guarded(h, GetInbox)
    \/ \E target \in Targets : Guarded(h, MessageSend(target, "Do X"))

\* the header is 'Bearer <key>' (the scheme in either case, as HTTP reads it)
CarriesKey(h) == Len(h) >= 2 /\ ToLowerCase(h[1]) = "bearer" /\ h[2] = API_KEY

\* C25: with an API key configured, a request to a sensitive endpoint whose
\* Authorization header is not 'Bearer <key>' is answered 401 or 403 and
\* changes no state; without an API key the request is not rejected.
C25_KeyRequired ==
    [][\A h \in AuthHeaders :
         SensitiveRequest(h) =>
           IF API_KEY = NoKey
           THEN reply'.code \notin {401, 403}
           ELSE CarriesKey(h) \/
                  /\ reply'.code \in {401, 403}
                  /\ UNCHANGED <<configVars, now, retryReapAt, timeoutReapAt, peers, sockets,
                                 taskVars, nodeVars>>]_vars

\* a field of the body is given and is not one of the values of its enum
OutsideEnum(value, enum) == value.typeof # "undefined" /\ value.text \notin enum

\* a field of the body is given, not empty, and not one of the values
GivenOutsideEnum(value, enum) == value.truthy /\ value.text \notin enum

\* a body of /task/request with one of the defects the validation names
Defective(body, outside(_, _)) ==
    \/ body.description.typeof # "string"
    \/ body.description.length > MAX_DESCRIPTION_LENGTH
    \/ body.context.length > MAX_CONTEXT_SIZE
    \/ body.target.typeof \notin {"undefined", "string"}
    \/ outside(body.task_type, VALID_TASK_TYPES)
    \/ outside(body.priority, VALID_PRIORITIES)

\* the statuses /task/respond takes
ValidStatuses == {"accepted", "rejected", "in_progress", "completed", "failed"}

\* the response is 400, no table and no inbox changed, no frame was written
Refused ==
    /\ reply'.code = 400
    /\ written' = {}
    /\ UNCHANGED <<sentTasks, receivedTasks, deadLetterTasks, inbox>>

\* C26 as stated: a /task/request whose description, context, target,
\* task_type or priority is invalid (any task_type or priority outside its
\* enum), or a /task/respond without task_id or with a status outside the
\* five, returns 400, changes no table and no inbox and writes no frame: a
\* step that is not such a refusal is the step of no defective request.
C26_Claimed ==
    [][\/ Refused
       \/ /\ \A body \in RequestBodies :
               Defective(body, OutsideEnum) => ~PostTaskRequest(body)
          /\ \A task_id \in TaskIds \cup {NoTaskId}, status \in RespondStatuses :
               task_id = NoTaskId \/ status \notin ValidStatuses
               => ~PostTaskRespond(task_id, status)]_vars

\* C26 amended: the same with a task_type or priority that is given, not
\* empty, and outside its enum; an empty one is replaced by the default.
C26_InvalidRefused ==
    [][\/ Refused
       \/ /\ \A body \in RequestBodies :
               Defective(body, GivenOutsideEnum) => ~PostTaskRequest(body)
          /\ \A task_id \in TaskIds \cup {NoTaskId}, status \in RespondStatuses :
               task_id = NoTaskId \/ status \notin ValidStatuses
               => ~PostTaskRespond(task_id, status)]_vars

\* a request was refused while a task is held and a peer is connected
C26_Witness == reply.code = 400 /\ DOMAIN receivedTasks # {} /\ Len(peers) > 0

\* the answer of tasks/get the lookup order requires for an id that was given
Looked(taskId) ==
    IF taskId \in DOMAIN sentTasks
    THEN [direction |-> "sent", state |-> ktpToA2AState(sentTasks[taskId].status)]
    ELSE IF taskId \in DOMAIN receivedTasks
    THEN [direction |-> "received", state |-> ktpToA2AState(receivedTasks[taskId].status)]
    ELSE IF taskId \in DOMAIN deadLetterTasks
    THEN [direction |-> "failed", state |-> ktpToA2AState(deadLetterTasks[taskId].status)]
    ELSE [direction |-> NONE, state |-> NONE]

\* C27: tasks/get answers with the projection of the sent entry if the id is
\* in the sent table, else of the received entry, else of the dead-letter
\* entry (direction sent, received, failed), and with error -32001 exactly
\* when the id is in none of the three tables; it modifies no table.
C27_TasksGetLookup ==
    [][\A taskId \in LookupIds \ {NoTaskId} :
         TasksGet(taskId) =>
           /\ UNCHANGED <<sentTasks, receivedTasks, deadLetterTasks>>
           /\ reply'.code = TASK_NOT_FOUND
                <=> taskId \notin DOMAIN sentTasks \cup DOMAIN receivedTasks
                                   \cup DOMAIN deadLetterTasks
           /\ reply'.code # TASK_NOT_FOUND =>
                /\ reply'.task.id = taskId
                /\ reply'.task.direction = Looked(taskId).direction
                /\ reply'.task.state = Looked(taskId).state]_vars

\* tasks/get answered with the sent entry of an id the received table holds
\* as well
C27_Witness ==
    /\ "task" \in DOMAIN reply
    /\ reply.task.direction = "sent"
    /\ reply.task.id \in DOMAIN receivedTasks

(* ------------------- claims on numbers and names (C28-C30) ------------- *)

\* the step queued sent-task id for a retry as attempt n
Queued(id, n) ==
    /\ id \in DOMAIN sentTasks'
    /\ sentTasks'[id].status = "queued_for_retry"
    /\ sentTasks'[id].attemptCount = n
    /\ id \in DOMAIN sentTasks => sentTasks[id].attemptCount # n

\* C28: a task queued at submission for a target that stays offline waits
\* 5 s before its first retry check, then 10 s, then 20 s, and is queued at
\* most 3 times before it goes to the dead-letter queue.
C28_BackoffSchedule ==
    [][\A id \in TaskIds, n \in 1..(maxAttempts + 1) :
         Queued(id, n) =>
           /\ n <= maxAttempts
           /\ sentTasks'[id].nextRetryTime - now' = baseDelayMs * Pow2(n - 1)]_vars

\* C29: a node has one short id, the last 8 hex characters of its raw public
\* key: the short id under which this node records the sender of a verified
\* frame (senderShortId, fromShortId) is the one the sending node, running
\* the same program, reports for itself.
C29_SingleShortId ==
    [][\A s \in SocketIds, raw \in NodeFrames :
         SocketData(s, raw) /\ Len(inbox') > Len(inbox) =>
           /\ inbox'[Len(inbox')].senderShortId = SelfShortId(raw.senderKey)
           /\ raw.content.type = "task_request" =>
                receivedTasks'[raw.content.task_id].fromShortId
                  = SelfShortId(raw.senderKey)]_vars

\* C30: every inbound frame of a connected peer, a ping or a signed envelope,
\* sets the peer's lastSeen to the time of its arrival, so that a peer whose
\* frames are less than 10 s apart is never stale at a tick of the reaper.
C30_EveryFrameRefreshes ==
    [][\A s \in SocketIds, raw \in SessionFrames :
         SocketData(s, raw) /\ HasPeer(sockets[s].key) =>
           peers'[PeerIndex(sockets[s].key)].lastSeen = now]_vars

(* ------------------ claims on delivery and frames (C31-C34) ------------ *)

\* the keys the frames of a step were written to
Receivers(frames) == {f.to : f \in frames}

\* C31: a valid /task/request whose target matches a peer writes the
\* task_request to the first matching peer and to no other; without target
\* or with target "*" it writes it to every peer of the table; in both cases
\* the task is stored in the sent-task table with status pending.
C31_RequestDelivery ==
    [][\A target \in DeliveryTargets, task_type \in TaskTypes :
         TaskRequest(target, task_type, "x", NULL) =>
           LET matching == {i \in 1..Len(peers) : MatchesTarget(peers[i], target)}
               broadcast == target \in {NoTarget, "*"}
           IN /\ \A f \in written' : f.type = "task_request" /\ f.task_id = nextTaskId
              /\ broadcast => /\ Receivers(written') = {peers[i].key : i \in 1..Len(peers)}
                              /\ sentTasks'[nextTaskId].status = "pending"
              /\ ~broadcast /\ matching # {} =>
                   /\ \E i \in matching :
                         /\ \A j \in matching : i <= j
                         /\ Receivers(written') = {peers[i].key}
                   /\ sentTasks'[nextTaskId].status = "pending"]_vars

\* a request was sent to the first of two peers that both match its target
C31_Witness ==
    /\ Len(peers) = 2
    /\ \A i \in 1..2 : MatchesTarget(peers[i], "ghost")
    /\ \E id \in DOMAIN sentTasks : sentTasks[id].status = "pending"
    /\ Receivers(written) = {peers[1].key}

\* C32: a verified task_response whose task_id is not in the sent-task table
\* changes no entry of the sent-task, received-task or dead-letter table, no
\* peer and no stream and writes nothing; it appends one record to the inbox.
C32_UnknownResponseIgnored ==
    [][\A s \in SocketIds, raw \in GatewayFrames :
         /\ raw.content.type = "task_response"
         /\ raw.content.task_id \notin DOMAIN sentTasks
         /\ SocketData(s, raw)
         => /\ UNCHANGED <<sentTasks, receivedTasks, deadLetterTasks, peers, sockets>>
            /\ written' = {}
            /\ Len(inbox') = Len(inbox) + 1
            /\ SubSeq(inbox', 1, Len(inbox)) = inbox
            /\ inbox'[Len(inbox')].type = "task_response"]_vars

\* the response for a task that is in the dead-letter table has arrived
C32_Witness ==
    /\ sentTasks = EmptyTable
    /\ deadLetterTasks # EmptyTable
    /\ inbox # <<>>
    /\ inbox[Len(inbox)].type = "task_response"

\* the keys of a peer table
PeerKeysOf(prs) == {prs[i].key : i \in 1..Len(prs)}

\* C33: while the entropy flag is off a tick of the entropy reaper removes no
\* peer and destroys no stream; /entropy flips the flag; while it is on, a
\* tick removes the peers the draw selects and no other, and the stream of
\* each removed peer is destroyed and its heartbeat timer cancelled.
C33_EntropyReaper ==
    [][/\ Entropy => entropyEnabled' = ~entropyEnabled
       /\ \A drop \in SUBSET NodeKeys :
            EntropyReaper(drop) =>
              IF ~entropyEnabled
              THEN UNCHANGED <<peers, sockets>>
              ELSE /\ PeerKeysOf(peers') = PeerKeysOf(peers) \ drop
                   /\ \A i \in 1..Len(peers) :
                        IF peers[i].key \in drop
                        THEN /\ sockets'[peers[i].socket].state # "open"
                             /\ ~sockets'[peers[i].socket].interval
                        ELSE sockets'[peers[i].socket] = sockets[peers[i].socket]]_vars

\* with the flag on, a tick has dropped one of two peers and kept the other
C33_Witness ==
    /\ entropyEnabled
    /\ Len(peers) = 1
    /\ IsOpen(peers[1].socket)
    /\ \E s \in DOMAIN sockets : sockets[s].state = "closing" /\ ~sockets[s].interval

\* C34: when a connection arrives for a key that has a peer entry, the
\* heartbeat timer of the stream it replaces does not stay live, and the
\* later close or error of a replaced stream neither removes the entry of
\* the newer stream nor cancels its heartbeat timer.
C34_NewerStreamUnharmed ==
    [][/\ \A key \in PeerKeys :
            Connection(key) /\ HasPeer(key)
            => ~sockets'[peers[PeerIndex(key)].socket].interval
       /\ \A s \in SocketIds :
            /\ SocketClose(s) \/ SocketError(s)
            /\ HasPeer(sockets[s].key) /\ ~IsCurrent(s)
            => /\ peers' = peers
               /\ sockets'[peers[PeerIndex(sockets[s].key)].socket].interval
                    = sockets[peers[PeerIndex(sockets[s].key)].socket].interval]_vars

(* --------------------- claims on the retry queue (C35-C39) ------------- *)

\* the sent-task is waiting in the retry queue
InRetryQueue(id) == id \in DOMAIN sentTasks /\ sentTasks[id].status = "queued_for_retry"

\* C35: while the clock advances and the retry reaper keeps firing, every
\* sent-task in status queued_for_retry eventually leaves that status,
\* whether or not its nextRetryTime and attemptCount were set.
C35_QueuedLeaves == \A id \in TaskIds : InRetryQueue(id) ~> ~InRetryQueue(id)

\* a task queued by message/send, without nextRetryTime and attemptCount, has
\* gone through the retries and reached the dead-letter table
C35_Witness ==
    \E id \in DOMAIN deadLetterTasks :
        /\ deadLetterTasks[id].a2aSource
        /\ deadLetterTasks[id].attemptCount = maxAttempts

\* the sent-task is pending
IsPending(tasks, id) == id \in DOMAIN tasks /\ tasks[id].status = "pending"

\* C36: a tick of the retry reaper writes a task_request only for tasks that
\* were queued_for_retry; a pending task is neither re-sent nor put into the
\* retry queue, and one without a deadline is left exactly as it was, also
\* when no peer matches its target any more.
C36_PendingLeftAlone ==
    [][RetryReaper =>
          /\ \A f \in written' :
                f.type = "task_request" => InRetryQueue(f.task_id)
          /\ \A id \in TaskIds :
                IsPending(sentTasks, id) =>
                   /\ FramesFor(written', id) = {}
                   /\ ~(id \in DOMAIN sentTasks' /\
                        sentTasks'[id].status = "queued_for_retry")
                   /\ ~IsSet(sentTasks[id].deadline) =>
                         id \in DOMAIN sentTasks' /\ sentTasks'[id] = sentTasks[id]]_vars

\* the reaper has just run over a pending task without deadline whose peer
\* has left the peer table
C36_Witness ==
    /\ ReaperJustRan /\ Len(peers) = 0
    /\ \E id \in TaskIds :
          /\ IsPending(sentTasks, id)
          /\ ~IsSet(sentTasks[id].deadline)
          /\ sentTasks[id].target = "id1"
          /\ sentTasks[id].lastAttemptAt < now

\* the step pushed the inbox record of a task_request frame
TaskRequestArrived ==
    /\ Len(inbox') = Len(inbox) + 1
    /\ inbox'[Len(inbox')].type = "task_request"

\* C37: a task_request frame leaves the from and the status of every entry
\* the received-task table already holds as they were.
C37_ReceivedEntryKept ==
    [][TaskRequestArrived =>
          \A id \in DOMAIN receivedTasks :
              /\ receivedTasks'[id].from = receivedTasks[id].from
              /\ receivedTasks'[id].status = receivedTasks[id].status]_vars

\* C38: GET /task/status/<id> never answers 404 for an id that /task/request
\* has returned, also after the task was moved to the dead-letter table.
C38_StatusRetrievable ==
    [][\A id \in TaskIds :
          id < nextTaskId /\ TaskStatus(id) => reply'.code # 404]_vars

\* the task is in the retry queue as POST /tasks/retry left it and its
\* deadline has passed
RequeuedExpired(id) ==
    /\ InRetryQueue(id)
    /\ sentTasks[id].attemptCount = 0
    /\ DeadlinePassed(sentTasks[id])

\* C39: the retry-reaper tick that finds a manually requeued task whose
\* deadline has passed moves it back to the dead-letter table with reason
\* "Deadline exceeded" and writes no task_request for it, also when a peer
\* matching its target is in the peer table.
C39_RequeuedExpiredGoesBack ==
    [][RetryReaper =>
          \A id \in TaskIds :
              RequeuedExpired(id) =>
                 /\ id \notin DOMAIN sentTasks'
                 /\ id \in DOMAIN deadLetterTasks'
                 /\ deadLetterTasks'[id].failureReason = "Deadline exceeded"
                 /\ FramesFor(written', id) = {}]_vars

\* the reaper has just moved a requeued task back, its deadline lay before
\* the requeue and a peer matching its target is live
C39_Witness ==
    /\ ReaperJustRan
    /\ \E id \in DOMAIN deadLetterTasks :
          /\ deadLetterTasks[id].failureReason = "Deadline exceeded"
          /\ deadLetterTasks[id].attemptCount = 0
          /\ deadLetterTasks[id].failedAt = now
          /\ deadLetterTasks[id].deadline < deadLetterTasks[id].nextRetryTime
          /\ ReaperFirstMatch(deadLetterTasks[id].target) # 0

====
